---- MODULE Spec2Model ----
(***************************************************************************)
(* Model of the Validator Accumulator block coordinator                    *)
(* (ValAcc/accumulator/accumulator.go): Accumulator.Init and               *)
(* Accumulator.Run, the three channels around them, and the store they     *)
(* write.  The merkleDag, node and database packages are modelled from     *)
(* their documented behaviour.                                             *)
(*                                                                         *)
(* Digests are symbolic and collision free: a digest is a sequence of      *)
(* naturals, the all-zero digest is the empty sequence, a leaf digest is   *)
(* <<k>> with k >= 1 and H(a||b) is <<0>> \o a \o b (prefix notation of    *)
(* the hash tree, uniquely decodable).                                     *)
(***************************************************************************)
EXTENDS Integers, Sequences, FiniteSets, TLC

(***************************************************************************)
(* Bounds of the model.                                                    *)
(***************************************************************************)
\* entries the producers send over all runs
MaxProduced == 3
\* values the block closer sends on the control channel over all runs
MaxSignals == 2
\* times the coordinator process is stopped and started again on the store
MaxRestarts == 1
\* wall clock readings are 0..MaxTime
MaxTime == 0
\* capacity of the entry feed (10000 in the source, scaled down)
EntryFeedCap == 2
\* largest value of types.BlockHeight (2^64 - 1 in the source, scaled down)
MaxHeight == 7
\* longest entry feed of one block in the comparison of two blocks
MaxFeedLen == 2

(***************************************************************************)
(* Program constants.                                                      *)
(***************************************************************************)
ControlCap == 1
MdFeedCap == 1
Version == 1

\* 32-byte identifiers, scaled to two bytes.  AccID is the accumulator's own
\* chainID, ChainIDs are the chains the validators write to.
AccID == <<0, 0>>
ChainIDs == {<<0, 1>>, <<1, 0>>}

VARIABLES
    pc,         \* "new" (not initialised), "building", "send" (blocked at
                \* the mdFeed send of line 153), "panic"
    height,     \* a.height
    previous,   \* a.previous: << >> for nil, <<node>> otherwise
    chains,     \* a.chains: chainID -> [Node, MD]
    entryFeed,  \* a.entryFeed
    control,    \* a.control
    mdFeed,     \* a.mdFeed
    dbNode,     \* a.DB, bucket types.Node: the nodes stored, keyed by GetHash
    dbHead,     \* a.DB, bucket types.NodeHead: chainID -> hash
    dbGarbage,  \* a.DB, bucket types.Node: the keys whose stored bytes are
                \* damaged (truncated) and do not decode
    clock,      \* the last reading of time.Now()
    controlClosed, \* close(control) has been called on a.control
    pairFeeds,  \* two entry feeds of one block each, compared by SpecPair
    pairOut,    \* << >>, or the results of flushing the two feeds
    \* history variables, read by the properties only
    produced,   \* entries sent so far
    signals,    \* control values sent so far
    restarts,   \* restarts so far
    arrived,    \* EntryHash tuples dequeued since the last flush
    flushed,    \* one record per flush, oldest first
    runStart,   \* Len(flushed) when the current run was initialised
    nTrue,      \* true control values consumed by the current run
    sent,       \* roots sent on mdFeed by the current run
    sawClosed,  \* the current run has received from the closed control
    interrupted \* << >>, or <<record>> of the flush a crash cut short

\* the variables only the specifications of single claims change
aux == <<dbGarbage, controlClosed, pairFeeds, pairOut, sawClosed,
         interrupted>>

vars == <<pc, height, previous, chains, entryFeed, control, mdFeed, dbNode,
          dbHead, clock, produced, signals, restarts, arrived, flushed,
          runStart, nTrue, sent, aux>>

(***************************************************************************)
(* Hash primitives and the Merkle DAG aggregator.                          *)
(***************************************************************************)
Zero == << >>

H(a, b) == <<0>> \o a \o b

EmptyMD == [HashList |-> << >>, F |-> << >>]

\* the carry chain of AddToChain: F[k] is the pending subtree of 2^(k-1)
\* leaves, Zero when the level is free
RECURSIVE Carry(_, _, _)
Carry(F, cur, k) ==
    IF k > Len(F) THEN Append(F, cur)
    ELSE IF F[k] = Zero THEN [F EXCEPT ![k] = cur]
    ELSE Carry([F EXCEPT ![k] = Zero], H(F[k], cur), k + 1)

AddToChain(md, h) ==
    [HashList |-> Append(md.HashList, h), F |-> Carry(md.F, h, 1)]

RECURSIVE FoldFrontier(_, _, _)
FoldFrontier(F, k, acc) ==
    IF k > Len(F) THEN acc
    ELSE IF F[k] = Zero THEN FoldFrontier(F, k + 1, acc)
    ELSE IF acc = Zero THEN FoldFrontier(F, k + 1, F[k])
    ELSE FoldFrontier(F, k + 1, H(F[k], acc))

GetMDRoot(md) == FoldFrontier(md.F, 1, Zero)

(***************************************************************************)
(* Nodes and their codec.                                                  *)
(***************************************************************************)
\* the zero value of node.Node
NewNode ==
    [Version |-> 0, ChainID |-> <<0, 0>>, BHeight |-> 0, SequenceNum |-> 0,
     TimeStamp |-> 0, Previous |-> Zero, IsNode |-> FALSE,
     ListMDRoot |-> Zero, EntryList |-> << >>]

\* a variable-length digest, length-prefixed
LenPrefixed(h) == <<Len(h)>> \o h

RECURSIVE MarshalList(_)
MarshalList(l) ==
    IF l = << >> THEN << >>
    ELSE LenPrefixed(Head(l)) \o MarshalList(Tail(l))

\* the fields in their fixed order, the entry list behind its count
Marshal(n) ==
    <<n.Version>> \o n.ChainID \o <<n.BHeight, n.SequenceNum, n.TimeStamp>>
      \o LenPrefixed(n.Previous) \o <<IF n.IsNode THEN 1 ELSE 0>>
      \o LenPrefixed(n.ListMDRoot) \o <<Len(n.EntryList)>>
      \o MarshalList(n.EntryList)

\* the digest of the serialization, symbolic: the serialization itself
GetHash(n) == Marshal(n)

\* Node.GetMDRoot
NodeMDRoot(n) == n.ListMDRoot

(***************************************************************************)
(* Store adapter.                                                          *)
(***************************************************************************)
\* db.Get(types.NodeHead, key): << >> for nil, <<hash>> otherwise
GetHead(heads, key) ==
    IF key \in DOMAIN heads THEN <<heads[key]>> ELSE << >>

\* db.Get(types.Node, hash): << >> for nil, <<node>> otherwise
GetNode(nodes, hash) ==
    IF \E n \in nodes : GetHash(n) = hash
    THEN <<CHOOSE n \in nodes : GetHash(n) = hash>>
    ELSE << >>

\* Node.Put, bucket types.Node
PutNode(nodes, n) == nodes \cup {n}

\* Node.Put, bucket types.NodeHead: a directory node becomes the head of its
\* chain
PutHead(heads, n) ==
    IF n.IsNode
    THEN [k \in DOMAIN heads \cup {n.ChainID} |->
              IF k = n.ChainID THEN GetHash(n) ELSE heads[k]]
    ELSE heads

(***************************************************************************)
(* Chain accumulator.                                                      *)
(***************************************************************************)
\* NewChainAcc(db, entry, height): an empty MD and the node template of the
\* entry's chain at this height
NewChainAcc(entry, h) ==
    [Node |-> [NewNode EXCEPT !.ChainID = entry.ChainID, !.BHeight = h],
     MD |-> EmptyMD]

(***************************************************************************)
(* Accumulator.Run, the pieces of one pass of its outer loop.              *)
(***************************************************************************)
\* `if ctl` : does the value received on control end the block
\* (variant: every received value ends the block)
EndsBlockAlways(ctl) == TRUE

\* (variant: no received value ends the block)
EndsBlockNever(ctl) == FALSE

EndsBlock(ctl) == ctl

\* case entry := <-a.entryFeed: the chain map after the entry is added
\* (variant: the lookup in a.chains is skipped, a collector is created for
\* every entry)
AddEntryAlwaysNew(chs, entry, h) ==
    LET chain == NewChainAcc(entry, h)
    IN  [k \in DOMAIN chs \cup {entry.ChainID} |->
            IF k = entry.ChainID
            THEN [chain EXCEPT !.MD = AddToChain(chain.MD, entry.EntryHash)]
            ELSE chs[k]]

AddEntry(chs, entry, h) ==
    LET chain == IF entry.ChainID \in DOMAIN chs
                 THEN chs[entry.ChainID]
                 ELSE NewChainAcc(entry, h)
    IN  [k \in DOMAIN chs \cup {entry.ChainID} |->
            IF k = entry.ChainID
            THEN [chain EXCEPT !.MD = AddToChain(chain.MD, entry.EntryHash)]
            ELSE chs[k]]

\* the leaf-list node of one chain as it is Put at the flush
LeafNode(v) ==
    [v.Node EXCEPT !.ListMDRoot = GetMDRoot(v.MD),
                   !.EntryList = v.MD.HashList,
                   !.IsNode = FALSE]

\* the node.NEList of one flushed chain
NEList(n) == [ChainID |-> n.ChainID, MDRoot |-> n.ListMDRoot]

\* `for _, v := range a.chains`: Go leaves the iteration order of a map
\* open, so every order of the keys is possible
Orders(chs) ==
    LET D == DOMAIN chs
        n == Cardinality(D)
    IN  {o \in [1..n -> D] : \A i, j \in 1..n : i # j => o[i] # o[j]}

\* chainEntries as appended by the range loop walking the map in `order`
ChainEntries(chs, order) ==
    [i \in 1..Len(order) |-> NEList(LeafNode(chs[order[i]]))]

\* the leaf-list nodes the range loop Puts
LeafNodes(chs) == {LeafNode(chs[k]) : k \in DOMAIN chs}

\* v.Node.Put(a.DB) for every chain of the map: the store after the loop
\* (variant: the leaf-list nodes are not Put)
PutLeavesSkipped(nodes, leaves) == nodes

PutLeaves(nodes, leaves) ==
    nodes \cup UNION {PutNode(nodes, n) : n \in leaves}

\* bytes.Compare: -1, 0 or 1, lexicographic on unsigned bytes
RECURSIVE BytesCompare(_, _)
BytesCompare(a, b) ==
    IF a = << >> /\ b = << >> THEN 0
    ELSE IF a = << >> THEN -1
    ELSE IF b = << >> THEN 1
    ELSE IF Head(a) < Head(b) THEN -1
    ELSE IF Head(a) > Head(b) THEN 1
    ELSE BytesCompare(Tail(a), Tail(b))

\* the less function handed to sort.Slice
Less(x, y) == BytesCompare(x.ChainID, y.ChainID) < 0

RECURSIVE Insert(_, _)
Insert(s, x) ==
    IF s = << >> THEN <<x>>
    ELSE IF Less(x, Head(s)) THEN <<x>> \o s
    ELSE <<Head(s)>> \o Insert(Tail(s), x)

RECURSIVE InsertionSort(_)
InsertionSort(s) ==
    IF s = << >> THEN << >>
    ELSE Insert(InsertionSort(SubSeq(s, 1, Len(s) - 1)), s[Len(s)])

\* sort.Slice(chainEntries, less)
\* (variant: the slice is left in map iteration order)
NoSort(s) == s

SortSlice(s) == InsertionSort(s)

\* MDAcc: the MD over the MDRoots of the sorted chain entries
\* (variant: the ChainID is hashed in with each MDRoot)
RECURSIVE DirectoryMDLabelled(_)
DirectoryMDLabelled(s) ==
    IF s = << >> THEN EmptyMD
    ELSE AddToChain(DirectoryMDLabelled(SubSeq(s, 1, Len(s) - 1)),
                    H(s[Len(s)].ChainID, s[Len(s)].MDRoot))

RECURSIVE DirectoryMD(_)
DirectoryMD(s) ==
    IF s = << >> THEN EmptyMD
    ELSE AddToChain(DirectoryMD(SubSeq(s, 1, Len(s) - 1)), s[Len(s)].MDRoot)

\* directoryBlock as populated before it is Put.  The test on SequenceNum
\* reads the field of the node just allocated, before it is assigned.
\* (variant: IsNode is left false)
DirectoryBlockNotNode(h, prev, now, root) ==
    [NewNode EXCEPT
        !.Version = Version,
        !.ChainID = AccID,
        !.BHeight = h,
        !.SequenceNum = h,
        !.TimeStamp = now,
        !.IsNode = FALSE,
        !.ListMDRoot = root]

DirectoryBlock(h, prev, now, root) ==
    LET fresh == NewNode
    IN  [fresh EXCEPT
            !.Version = Version,
            !.ChainID = AccID,
            !.BHeight = h,
            !.Previous = IF fresh.SequenceNum > 0
                         THEN GetHash(prev[1])
                         ELSE fresh.Previous,
            !.SequenceNum = h,
            !.TimeStamp = now,
            !.IsNode = TRUE,
            !.ListMDRoot = root]

\* what is sent on mdFeed for the directory block just Put
\* (variant: the node's hash is sent instead of its MD root)
PublishedHash(dir) == GetHash(dir)

Published(dir) == NodeMDRoot(dir)

\* a.chains = make(map...): the chain map the next block starts with
\* (variant: the map is not replaced)
KeptChains(chs) == chs

ClearedChains(chs) == << >>

\* types.BlockHeight arithmetic: unsigned, wraps past MaxHeight
HeightAfter(h) == (h + 1) % (MaxHeight + 1)

\* What Init gets for the head's hash: "nil" when db.Get(types.Node, hash)
\* finds no record, "bad" when the record's bytes are among the damaged
\* ones (Unmarshal returns an error), "ok" otherwise
HeadRecord(nodes, garbage, hash) ==
    IF GetNode(nodes, hash) = << >> THEN "nil"
    ELSE IF hash \in garbage THEN "bad"
    ELSE "ok"

\* the two panics of Init: a head whose record is missing, a head whose
\* record does not unmarshal
\* (variant: the error of Unmarshal is dropped)
InitPanicsOnNilOnly(heads, nodes, garbage) ==
    /\ GetHead(heads, AccID) # << >>
    /\ HeadRecord(nodes, garbage, GetHead(heads, AccID)[1]) = "nil"

InitPanics(heads, nodes, garbage) ==
    /\ GetHead(heads, AccID) # << >>
    /\ HeadRecord(nodes, garbage, GetHead(heads, AccID)[1]) # "ok"

(***************************************************************************)
(* Initial state: an empty store and an Accumulator value on which Init    *)
(* has not been called yet.                                                *)
(***************************************************************************)
InitVolatile ==
    /\ pc = "new"
    /\ height = 0
    /\ previous = << >>
    /\ chains = << >>
    /\ entryFeed = << >>
    /\ control = << >>
    /\ mdFeed = << >>
    /\ clock = 0
    /\ produced = 0
    /\ signals = 0
    /\ restarts = 0
    /\ arrived = << >>
    /\ flushed = << >>
    /\ runStart = 0
    /\ nTrue = 0
    /\ sent = << >>
    /\ dbGarbage = {}
    /\ controlClosed = FALSE
    /\ pairOut = << >>
    /\ sawClosed = FALSE
    /\ interrupted = << >>

Init ==
    /\ InitVolatile
    /\ dbNode = {}
    /\ dbHead = << >>
    /\ pairFeeds = << << >>, << >> >>

\* Accumulator.Init(db, chainID)
AccInit ==
    /\ pc = "new"
    /\ LET headHash == GetHead(dbHead, AccID)
           head == IF headHash = << >> THEN << >>
                   ELSE GetNode(dbNode, headHash[1])
       IN  IF InitPanics(dbHead, dbNode, dbGarbage)
           THEN \* panic(...) before anything is allocated
                /\ pc' = "panic"
                /\ UNCHANGED <<height, previous>>
           ELSE /\ pc' = "building"
                /\ previous' = head
                /\ height' = IF head = << >> THEN height
                             ELSE HeightAfter(head[1].BHeight)
    /\ chains' = << >>
    /\ entryFeed' = << >>
    /\ control' = << >>
    /\ mdFeed' = << >>
    /\ runStart' = Len(flushed)
    /\ nTrue' = 0
    /\ sent' = << >>
    /\ arrived' = << >>
    /\ UNCHANGED <<dbNode, dbHead, clock, produced, signals, restarts, flushed>>
    /\ controlClosed' = FALSE
    /\ sawClosed' = FALSE
    /\ UNCHANGED <<dbGarbage, pairFeeds, pairOut, interrupted>>

\* case entry := <-a.entryFeed
RecvEntry ==
    /\ pc = "building"
    /\ entryFeed # << >>
    /\ chains' = AddEntry(chains, Head(entryFeed), height)
    /\ entryFeed' = Tail(entryFeed)
    /\ arrived' = Append(arrived, Head(entryFeed))
    /\ UNCHANGED <<pc, height, previous, control, mdFeed, dbNode, dbHead,
                   clock, produced, signals, restarts, flushed, runStart,
                   nTrue, sent>>
    /\ UNCHANGED aux

\* case ctl := <-a.control, with a value that does not end the block
RecvControlStay ==
    /\ pc = "building"
    /\ control # << >>
    /\ ~EndsBlock(Head(control))
    /\ control' = Tail(control)
    /\ nTrue' = nTrue + (IF Head(control) THEN 1 ELSE 0)
    /\ UNCHANGED <<pc, height, previous, chains, entryFeed, mdFeed, dbNode,
                   dbHead, clock, produced, signals, restarts, arrived,
                   flushed, runStart, sent>>
    /\ UNCHANGED aux

\* case ctl := <-a.control with a value that ends the block, and the flush
\* up to directoryBlock.Put; the coordinator then stands at the mdFeed send
RecvControlFlush ==
    /\ pc = "building"
    /\ control # << >>
    /\ EndsBlock(Head(control))
    /\ control' = Tail(control)
    /\ \E order \in Orders(chains), now \in clock..MaxTime :
          LET chainEntries == SortSlice(ChainEntries(chains, order))
              MDAcc == DirectoryMD(chainEntries)
              directoryBlock ==
                  DirectoryBlock(height, previous, now, GetMDRoot(MDAcc))
              leaves == LeafNodes(chains)
          IN  /\ dbNode' = PutNode(PutLeaves(dbNode, leaves), directoryBlock)
              /\ dbHead' = PutHead(dbHead, directoryBlock)
              /\ clock' = now
              /\ flushed' = Append(flushed,
                     [arrived |-> arrived,
                      ctl |-> Head(control),
                      leaves |-> leaves,
                      chainEntries |-> chainEntries,
                      dir |-> directoryBlock,
                      previous |-> previous,
                      first |-> (Len(flushed) = runStart)])
    /\ pc' = "send"
    /\ nTrue' = nTrue + (IF Head(control) THEN 1 ELSE 0)
    /\ arrived' = << >>
    /\ UNCHANGED <<height, previous, chains, entryFeed, mdFeed, produced,
                   signals, restarts, runStart, sent>>
    /\ UNCHANGED aux

\* a.mdFeed <- directoryBlock.GetMDRoot(), then the chain map is replaced
\* and the outer loop starts its next pass
\* (variant: the send does not wait for room in the channel)
SendMDNoWait ==
    /\ pc = "send"
    /\ mdFeed' = Append(mdFeed, Published(flushed[Len(flushed)].dir))
    /\ sent' = Append(sent, Published(flushed[Len(flushed)].dir))
    /\ chains' = ClearedChains(chains)
    /\ pc' = "building"
    /\ UNCHANGED <<height, previous, entryFeed, control, dbNode, dbHead,
                   clock, produced, signals, restarts, arrived, flushed,
                   runStart, nTrue>>
    /\ UNCHANGED aux

SendMD ==
    /\ pc = "send"
    /\ Len(mdFeed) < MdFeedCap
    /\ mdFeed' = Append(mdFeed, Published(flushed[Len(flushed)].dir))
    /\ sent' = Append(sent, Published(flushed[Len(flushed)].dir))
    /\ chains' = ClearedChains(chains)
    /\ pc' = "building"
    /\ UNCHANGED <<height, previous, entryFeed, control, dbNode, dbHead,
                   clock, produced, signals, restarts, arrived, flushed,
                   runStart, nTrue>>
    /\ UNCHANGED aux

(***************************************************************************)
(* The environment: validators, the block closer, the root consumer, and   *)
(* the operator who stops the process and starts it again.                 *)
(***************************************************************************)
\* a validator sends the next entry, of any chain; entry hashes are digests
\* of distinct payloads
Produce ==
    /\ pc \in {"building", "send"}
    /\ produced < MaxProduced
    /\ Len(entryFeed) < EntryFeedCap
    /\ \E c \in ChainIDs :
          entryFeed' = Append(entryFeed,
                              [ChainID |-> c, EntryHash |-> <<produced + 1>>])
    /\ produced' = produced + 1
    /\ UNCHANGED <<pc, height, previous, chains, control, mdFeed, dbNode,
                   dbHead, clock, signals, restarts, arrived, flushed,
                   runStart, nTrue, sent>>
    /\ UNCHANGED aux

\* the block closer sends a value on control
Signal ==
    /\ pc \in {"building", "send"}
    /\ signals < MaxSignals
    /\ ~controlClosed
    /\ Len(control) < ControlCap
    /\ \E b \in BOOLEAN : control' = Append(control, b)
    /\ signals' = signals + 1
    /\ UNCHANGED <<pc, height, previous, chains, entryFeed, mdFeed, dbNode,
                   dbHead, clock, produced, restarts, arrived, flushed,
                   runStart, nTrue, sent>>
    /\ UNCHANGED aux

\* the consumer receives a root from mdFeed
Consume ==
    /\ mdFeed # << >>
    /\ mdFeed' = Tail(mdFeed)
    /\ UNCHANGED <<pc, height, previous, chains, entryFeed, control, dbNode,
                   dbHead, clock, produced, signals, restarts, arrived,
                   flushed, runStart, nTrue, sent>>
    /\ UNCHANGED aux

\* the process is stopped: the Accumulator value and its channels are gone,
\* the store stays; a new Accumulator value is ready for Init
Restart ==
    /\ pc \in {"building", "send"}
    /\ restarts < MaxRestarts
    /\ restarts' = restarts + 1
    /\ pc' = "new"
    /\ height' = 0
    /\ previous' = << >>
    /\ chains' = << >>
    /\ entryFeed' = << >>
    /\ control' = << >>
    /\ mdFeed' = << >>
    /\ arrived' = << >>
    /\ UNCHANGED <<dbNode, dbHead, clock, produced, signals, flushed,
                   runStart, nTrue, sent>>
    /\ controlClosed' = FALSE
    /\ sawClosed' = FALSE
    /\ UNCHANGED <<dbGarbage, pairFeeds, pairOut, interrupted>>

\* The default case of the select (time.Sleep) changes nothing: it is a
\* stuttering step of Spec.
Next ==
    \/ AccInit
    \/ RecvEntry
    \/ RecvControlStay
    \/ RecvControlFlush
    \/ SendMD
    \/ Produce
    \/ Signal
    \/ Consume
    \/ Restart

Spec == Init /\ [][Next]_vars

(***************************************************************************)
(* Helpers of the properties.                                              *)
(***************************************************************************)
\* the entry hashes of chain c in a sequence of EntryHash tuples, in order
RECURSIVE HashesOf(_, _)
HashesOf(es, c) ==
    IF es = << >> THEN << >>
    ELSE IF Head(es).ChainID = c
         THEN <<Head(es).EntryHash>> \o HashesOf(Tail(es), c)
         ELSE HashesOf(Tail(es), c)

\* the chains that occur in a sequence of EntryHash tuples
Touched(es) == {es[i].ChainID : i \in 1..Len(es)}

\* how often x occurs in the sequence s
Occurrences(s, x) == Cardinality({i \in 1..Len(s) : s[i] = x})

\* byte-lexicographic order on the two-byte identifiers
LexBefore(a, b) == a[1] < b[1] \/ (a[1] = b[1] /\ a[2] < b[2])

\* the flushes of the current run
ThisRun == {i \in 1..Len(flushed) : i > runStart}

\* the largest block height flushed so far
HighestFlushed ==
    CHOOSE h \in {flushed[i].dir.BHeight : i \in 1..Len(flushed)} :
        \A i \in 1..Len(flushed) : flushed[i].dir.BHeight <= h

(***************************************************************************)
(* C1  Leaf order preservation: for every flushed block and every chain    *)
(* that received an entry in it, the flush persisted exactly one leaf-list *)
(* node of that chain, and its EntryList is the sequence of the entry      *)
(* hashes of that chain in the order Run dequeued them, whatever entries   *)
(* of other chains came in between.                                        *)
(***************************************************************************)
C1_LeafOrder ==
    \A i \in 1..Len(flushed) :
        \A c \in Touched(flushed[i].arrived) :
            LET nodes == {n \in flushed[i].leaves : n.ChainID = c}
            IN  /\ Cardinality(nodes) = 1
                /\ \A n \in nodes :
                      /\ n \in dbNode
                      /\ ~n.IsNode
                      /\ n.EntryList = HashesOf(flushed[i].arrived, c)

\* a block in which two entries of one chain arrived around an entry of
\* another chain has been flushed
C1_Witness ==
    \E i \in 1..Len(flushed) :
        LET a == flushed[i].arrived
        IN  /\ Len(a) = 3
            /\ a[1].ChainID = a[3].ChainID
            /\ a[1].ChainID # a[2].ChainID
            /\ \E n \in flushed[i].leaves :
                  n.EntryList = <<a[1].EntryHash, a[3].EntryHash>>

(***************************************************************************)
(* C2  Exactly-once inclusion: every entry dequeued in a flushed block     *)
(* occurs exactly once in the leaf-list node of its own chain persisted by *)
(* that block's flush and in no other leaf-list node of that or any other  *)
(* block; between two passes the chain map holds exactly the chains of the *)
(* entries dequeued since the last flush.                                  *)
(***************************************************************************)
C2_ExactlyOnce ==
    /\ \A i \in 1..Len(flushed) :
          \A j \in 1..Len(flushed[i].arrived) :
              LET e == flushed[i].arrived[j]
              IN  /\ \E n \in flushed[i].leaves : n.ChainID = e.ChainID
                  /\ \A k \in 1..Len(flushed) :
                        \A n \in flushed[k].leaves :
                            Occurrences(n.EntryList, e.EntryHash) =
                                IF k = i /\ n.ChainID = e.ChainID
                                THEN 1 ELSE 0
    /\ \A i \in 1..Len(flushed) :
          \A n \in flushed[i].leaves :
              \A j \in 1..Len(n.EntryList) :
                  \E m \in 1..Len(flushed[i].arrived) :
                      flushed[i].arrived[m].EntryHash = n.EntryList[j]
    /\ pc = "building" => DOMAIN chains = Touched(arrived)

\* two blocks with entries have been flushed by one run
C2_Witness ==
    \E i \in ThisRun :
        /\ i > 1
        /\ i - 1 \in ThisRun
        /\ flushed[i - 1].arrived # << >>
        /\ flushed[i].arrived # << >>
        /\ flushed[i].leaves # {}

(***************************************************************************)
(* C3  Directory sort invariant: at every flush the sequence of            *)
(* (ChainID, MDRoot) pairs fed into the directory MD holds each chain that *)
(* received an entry in the block exactly once, with the root of its       *)
(* leaf-list node, holds no other chain, and is strictly ascending by      *)
(* byte-lexicographic ChainID, whatever the iteration order of the map.    *)
(***************************************************************************)
C3_DirectorySorted ==
    \A i \in 1..Len(flushed) :
        LET S == flushed[i].chainEntries
            T == Touched(flushed[i].arrived)
        IN  /\ Len(S) = Cardinality(T)
            /\ {S[j].ChainID : j \in 1..Len(S)} = T
            /\ \A j, k \in 1..Len(S) :
                  j < k => LexBefore(S[j].ChainID, S[k].ChainID)
            /\ \A j \in 1..Len(S) :
                  \E n \in flushed[i].leaves :
                      n.ChainID = S[j].ChainID /\ n.ListMDRoot = S[j].MDRoot
            /\ Len(S) = 2 =>
                  flushed[i].dir.ListMDRoot = H(S[1].MDRoot, S[2].MDRoot)

\* a block whose first entry was of the larger chain and whose second was
\* of the smaller chain has been flushed
C3_Witness ==
    \E i \in 1..Len(flushed) :
        LET a == flushed[i].arrived
        IN  /\ Len(a) >= 2
            /\ LexBefore(a[2].ChainID, a[1].ChainID)
            /\ Len(flushed[i].chainEntries) = 2
            /\ flushed[i].chainEntries[1].ChainID = a[2].ChainID

(***************************************************************************)
(* C4  Block chaining: every directory node persisted at a block height    *)
(* n > 0 has Previous equal to GetHash of a persisted directory node of    *)
(* block height n - 1.                                                     *)
(***************************************************************************)
C4_BlockChaining ==
    \A i \in 1..Len(flushed) :
        flushed[i].dir.BHeight > 0 =>
            \E m \in dbNode :
                /\ m.IsNode
                /\ m.BHeight = flushed[i].dir.BHeight - 1
                /\ flushed[i].dir.Previous = GetHash(m)

(***************************************************************************)
(* C5  Height progression: within one run, the directory node of each      *)
(* flush after the first has the block height of the flush before it       *)
(* plus one.                                                               *)
(***************************************************************************)
C5_HeightProgression ==
    \A i \in 1..Len(flushed) :
        (i > 1 /\ ~flushed[i].first) =>
            flushed[i].dir.BHeight = flushed[i - 1].dir.BHeight + 1

C7_HeadFresh ==
    flushed # << >> =>
        /\ AccID \in DOMAIN dbHead
        /\ LET n == GetNode(dbNode, dbHead[AccID])
           IN  /\ n # << >>
               /\ n[1].IsNode
               /\ n[1].BHeight = HighestFlushed

\* blocks 0 and 1 have been flushed and the head names the node of block 1
C7_Witness ==
    /\ Len(flushed) = 2
    /\ flushed[1].dir.BHeight = 0
    /\ flushed[2].dir.BHeight = 1
    /\ AccID \in DOMAIN dbHead
    /\ dbHead[AccID] = GetHash(flushed[2].dir)

(***************************************************************************)
(* C8  Restart consistency: the first flush of a run whose Init found a    *)
(* head node of block height k - 1 persists a directory node of block      *)
(* height k whose Previous is the hash of that head node; the first flush  *)
(* of a run whose Init found no head has block height 0 and Previous zero. *)
(* (a.previous is the head node Init read; Run never assigns it.)          *)
(***************************************************************************)
C8_RestartConsistency ==
    \A i \in 1..Len(flushed) :
        flushed[i].first =>
            IF flushed[i].previous = << >>
            THEN /\ flushed[i].dir.BHeight = 0
                 /\ flushed[i].dir.Previous = Zero
            ELSE /\ flushed[i].dir.BHeight =
                        flushed[i].previous[1].BHeight + 1
                 /\ flushed[i].dir.Previous =
                        GetHash(flushed[i].previous[1])

C10_FalseIgnored ==
    [][(/\ pc = "building"
        /\ control # << >>
        /\ Head(control) = FALSE
        /\ control' = Tail(control)
        /\ restarts' = restarts)
       => (/\ pc' = "building"
           /\ UNCHANGED <<chains, height, previous, dbNode, dbHead, mdFeed,
                          flushed, sent>>)]_vars

\* the first run has consumed a control value without flushing, after having
\* dequeued an entry
C10_Witness ==
    /\ pc = "building"
    /\ restarts = 0
    /\ signals = 1
    /\ control = << >>
    /\ flushed = << >>
    /\ nTrue = 0
    /\ arrived # << >>

(***************************************************************************)
(* Shutdown.  The block closer closes the control channel; a receive from  *)
(* a closed, drained channel yields the zero value, false, at once.        *)
(***************************************************************************)
\* close(control), by the block closer
CloseControl ==
    /\ pc \in {"building", "send"}
    /\ ~controlClosed
    /\ controlClosed' = TRUE
    /\ UNCHANGED <<pc, height, previous, chains, entryFeed, control, mdFeed,
                   dbNode, dbHead, clock, produced, signals, restarts,
                   arrived, flushed, runStart, nTrue, sent, dbGarbage,
                   pairFeeds, pairOut, sawClosed, interrupted>>

\* case ctl := <-a.control on the closed, drained channel: ctl is false, the
\* block loop goes on.  Later receives of this kind change nothing.
RecvClosed ==
    /\ pc = "building"
    /\ controlClosed
    /\ control = << >>
    /\ ~EndsBlock(FALSE)
    /\ ~sawClosed
    /\ sawClosed' = TRUE
    /\ UNCHANGED <<pc, height, previous, chains, entryFeed, control, mdFeed,
                   dbNode, dbHead, clock, produced, signals, restarts,
                   arrived, flushed, runStart, nTrue, sent, dbGarbage,
                   controlClosed, pairFeeds, pairOut, interrupted>>

NextShutdown ==
    \/ Next
    \/ CloseControl
    \/ RecvClosed

SpecShutdown == Init /\ [][NextShutdown]_vars

(***************************************************************************)
(* C11  Shutdown: once Run has received from the closed control channel    *)
(* (no flush is in progress at that receive), Run has left its loop and    *)
(* terminated.                                                             *)
(***************************************************************************)
C11_Shutdown == sawClosed => pc = "done"

(***************************************************************************)
(* Crash inside directoryBlock.Put.  Put writes the node and then the head *)
(* of its chain; the process may stop between the two writes.              *)
(***************************************************************************)
\* case ctl := <-a.control with a value that ends the block, the flush up to
\* the node write of directoryBlock.Put, and the stop of the process before
\* the head write: the Accumulator value and its channels are gone
CrashInPut ==
    /\ pc = "building"
    /\ control # << >>
    /\ EndsBlock(Head(control))
    /\ restarts < MaxRestarts
    /\ \E order \in Orders(chains), now \in clock..MaxTime :
          LET chainEntries == SortSlice(ChainEntries(chains, order))
              MDAcc == DirectoryMD(chainEntries)
              directoryBlock ==
                  DirectoryBlock(height, previous, now, GetMDRoot(MDAcc))
              leaves == LeafNodes(chains)
          IN  /\ dbNode' = PutNode(PutLeaves(dbNode, leaves), directoryBlock)
              /\ clock' = now
              /\ interrupted' = <<[dir |-> directoryBlock,
                                   head |-> GetHead(dbHead, AccID),
                                   first |-> (Len(flushed) = runStart),
                                   at |-> Len(flushed)]>>
    /\ restarts' = restarts + 1
    /\ pc' = "new"
    /\ height' = 0
    /\ previous' = << >>
    /\ chains' = << >>
    /\ entryFeed' = << >>
    /\ control' = << >>
    /\ mdFeed' = << >>
    /\ arrived' = << >>
    /\ controlClosed' = FALSE
    /\ sawClosed' = FALSE
    /\ UNCHANGED <<dbHead, produced, signals, flushed, runStart, nTrue, sent,
                   dbGarbage, pairFeeds, pairOut>>

NextCrash ==
    \/ Next
    \/ CrashInPut

SpecCrash == Init /\ [][NextCrash]_vars

(***************************************************************************)
(* C12  Crash before head update: when the process stops after the         *)
(* directory node of block h is stored and before the head names it, the   *)
(* node is in the store, the head is absent or names a stored directory    *)
(* node of block h - 1, and the first flush of the coordinator initialised *)
(* on that store next has the block height and the Previous of the         *)
(* interrupted directory node.                                             *)
(***************************************************************************)
C12_CrashBeforeHead ==
    interrupted # << >> =>
        LET x == interrupted[1]
        IN  /\ x.dir \in dbNode
            /\ \/ x.head = << >>
               \/ LET n == GetNode(dbNode, x.head[1])
                  IN  /\ n # << >>
                      /\ n[1].IsNode
                      /\ n[1].BHeight = x.dir.BHeight - 1
            /\ Len(flushed) > x.at =>
                  /\ flushed[x.at + 1].dir.BHeight = x.dir.BHeight
                  /\ flushed[x.at + 1].dir.Previous = x.dir.Previous

(***************************************************************************)
(* C13  Slow-consumer backpressure: the md feed never holds more than one  *)
(* root; while Run stands at the mdFeed send the directory node of the     *)
(* block is already stored; and as long as the feed still holds the root   *)
(* of the block before, Run stays at the send and dequeues neither an      *)
(* entry nor a control value (the feeds can only grow), until a consumer   *)
(* receives.                                                               *)
(***************************************************************************)
C13_Backpressure ==
    /\ [](Len(mdFeed) <= 1)
    /\ [](pc = "send" =>
            /\ flushed # << >>
            /\ flushed[Len(flushed)].dir \in dbNode)
    /\ [][(/\ pc = "send"
           /\ Len(mdFeed) = 1
           /\ restarts' = restarts)
          => (/\ pc' = "send"
              /\ Len(entryFeed') >= Len(entryFeed)
              /\ Len(control') >= Len(control)
              /\ UNCHANGED <<chains, arrived, nTrue, flushed, sent, dbNode,
                             dbHead>>)]_vars

\* Run stands at the send of its second block behind the unconsumed root of
\* its first, and the entry feed is full
C13_Witness ==
    /\ pc = "send"
    /\ Len(mdFeed) = 1
    /\ Len(sent) = 1
    /\ mdFeed[1] = sent[1]
    /\ Len(entryFeed) = EntryFeedCap

(***************************************************************************)
(* Two blocks side by side.  The initial state draws two entry feeds; the  *)
(* one action builds the chain map of each as the block loop does and      *)
(* flushes it as Run does, each with any iteration order of its map.       *)
(***************************************************************************)
PairChainIDs == {<<0, 1>>, <<1, 0>>, <<1, 1>>}
PairHashes == {<<1>>, <<2>>}
PairEntries == [ChainID : PairChainIDs, EntryHash : PairHashes]
Feeds == UNION {[1..n -> PairEntries] : n \in 0..MaxFeedLen}

\* a.chains after the block loop has dequeued the whole feed
RECURSIVE BlockChains(_)
BlockChains(feed) ==
    IF feed = << >> THEN << >>
    ELSE AddEntry(BlockChains(SubSeq(feed, 1, Len(feed) - 1)),
                  feed[Len(feed)], 0)

\* what the flush computes from the chain map walked in `order`: the
\* (ChainID, MDRoot) pair of every leaf-list node and the ListMDRoot of the
\* directory block
FlushOf(chs, order) ==
    LET chainEntries == SortSlice(ChainEntries(chs, order))
    IN  [roots |-> {NEList(n) : n \in LeafNodes(chs)},
         dirRoot |-> GetMDRoot(DirectoryMD(chainEntries))]

InitPair ==
    /\ InitVolatile
    /\ dbNode = {}
    /\ dbHead = << >>
    /\ pairFeeds \in Feeds \X Feeds

PairFlush ==
    /\ pairOut = << >>
    /\ \E oA \in Orders(BlockChains(pairFeeds[1])),
          oB \in Orders(BlockChains(pairFeeds[2])) :
          pairOut' = <<FlushOf(BlockChains(pairFeeds[1]), oA),
                       FlushOf(BlockChains(pairFeeds[2]), oB)>>
    /\ UNCHANGED <<pc, height, previous, chains, entryFeed, control, mdFeed,
                   dbNode, dbHead, clock, produced, signals, restarts,
                   arrived, flushed, runStart, nTrue, sent, dbGarbage,
                   controlClosed, pairFeeds, sawClosed, interrupted>>

NextPair == PairFlush

SpecPair == InitPair /\ [][NextPair]_vars

\* the two feeds hold, chain by chain, the same entries in the same order
SameChainFeeds ==
    \A c \in PairChainIDs :
        HashesOf(pairFeeds[1], c) = HashesOf(pairFeeds[2], c)

\* the MDRoots of a set of (ChainID, MDRoot) pairs in ascending order of
\* ChainID
RootsInChainOrder(R) ==
    LET n == Cardinality(R)
        q == CHOOSE f \in [1..n -> R] :
                 \A i, j \in 1..n :
                     i < j => LexBefore(f[i].ChainID, f[j].ChainID)
    IN  [i \in 1..n |-> q[i].MDRoot]

\* how many chains of a set of (ChainID, MDRoot) pairs have the root r
RootCount(R, r) == Cardinality({x \in R : x.MDRoot = r})

\* the two sets of pairs hold the same roots, each as often
SameRootBag(R1, R2) ==
    \A r \in {x.MDRoot : x \in R1 \cup R2} : RootCount(R1, r) = RootCount(R2, r)

(***************************************************************************)
(* C14  Arrival-order independence across chains: two feeds of one block   *)
(* that hold the same entries in the same order chain by chain, however    *)
(* the chains are interleaved, are flushed to the same per-chain roots and *)
(* the same directory root.                                                *)
(***************************************************************************)
C14_OrderIndependent ==
    (pairOut # << >> /\ SameChainFeeds) =>
        /\ pairOut[1].roots = pairOut[2].roots
        /\ pairOut[1].dirRoot = pairOut[2].dirRoot

\* two feeds that interleave two chains differently have been flushed
C14_Witness ==
    /\ pairOut # << >>
    /\ SameChainFeeds
    /\ pairFeeds[1] # pairFeeds[2]
    /\ Cardinality(pairOut[1].roots) = 2
    /\ pairOut[1].dirRoot # Zero

(***************************************************************************)
(* C15  Directory commitment ignores labels.  As claimed: two blocks with  *)
(* the same multiset of per-chain roots produce the same directory root.   *)
(***************************************************************************)
C15_SameBagSameRoot ==
    (pairOut # << >> /\ SameRootBag(pairOut[1].roots, pairOut[2].roots)) =>
        pairOut[1].dirRoot = pairOut[2].dirRoot

(***************************************************************************)
(* C15 as amended: two blocks whose per-chain roots, listed in ascending   *)
(* order of chain_id, form the same sequence produce the same directory    *)
(* root, whatever the chain_ids are.                                       *)
(***************************************************************************)
C15_SameSequenceSameRoot ==
    (/\ pairOut # << >>
     /\ RootsInChainOrder(pairOut[1].roots)
            = RootsInChainOrder(pairOut[2].roots)) =>
        pairOut[1].dirRoot = pairOut[2].dirRoot

\* two blocks of two chains each, with the same roots in chain order under
\* different chain_ids, have been flushed
C15_Witness ==
    /\ pairOut # << >>
    /\ Cardinality(pairOut[1].roots) = 2
    /\ RootsInChainOrder(pairOut[1].roots)
           = RootsInChainOrder(pairOut[2].roots)
    /\ {x.ChainID : x \in pairOut[1].roots}
           # {x.ChainID : x \in pairOut[2].roots}
    /\ pairOut[1].dirRoot = pairOut[2].dirRoot

(***************************************************************************)
(* C16  Persist before publish: in every step that sends a root on the md  *)
(* feed, the store already holds, before the step, the directory node the  *)
(* root is taken from and every leaf-list node of that block; and at all   *)
(* times every root sent in this run is the root of a stored directory     *)
(* node whose block's leaf-list nodes are stored too.                      *)
(***************************************************************************)
C16_PersistBeforePublish ==
    /\ [][Len(sent') > Len(sent) =>
             /\ flushed # << >>
             /\ sent'[Len(sent')] = NodeMDRoot(flushed[Len(flushed)].dir)
             /\ flushed[Len(flushed)].dir \in dbNode
             /\ flushed[Len(flushed)].leaves \subseteq dbNode]_vars
    /\ [](\A j \in 1..Len(sent) :
             /\ runStart + j <= Len(flushed)
             /\ sent[j] = NodeMDRoot(flushed[runStart + j].dir)
             /\ GetNode(dbNode, GetHash(flushed[runStart + j].dir))
                    = <<flushed[runStart + j].dir>>
             /\ \A n \in flushed[runStart + j].leaves :
                    GetNode(dbNode, GetHash(n)) = <<n>>)

\* the root of a block with two leaf-list nodes is waiting on the md feed
C16_Witness ==
    /\ mdFeed # << >>
    /\ sent # << >>
    /\ mdFeed[1] = sent[Len(sent)]
    /\ Cardinality(flushed[Len(flushed)].leaves) = 2
    /\ flushed[Len(flushed)].leaves \subseteq dbNode

(***************************************************************************)
(* A damaged store.  While the process is down, the record of the node the *)
(* head names is lost, or its bytes are damaged so that they no longer     *)
(* unmarshal.                                                              *)
(***************************************************************************)
DamageHead ==
    /\ pc = "new"
    /\ GetHead(dbHead, AccID) # << >>
    /\ dbGarbage = {}
    /\ GetNode(dbNode, GetHead(dbHead, AccID)[1]) # << >>
    /\ \/ /\ dbNode' = dbNode \ {GetNode(dbNode, GetHead(dbHead, AccID)[1])[1]}
          /\ dbGarbage' = dbGarbage
       \/ /\ dbGarbage' = {GetHead(dbHead, AccID)[1]}
          /\ dbNode' = dbNode
    /\ UNCHANGED <<pc, height, previous, chains, entryFeed, control, mdFeed,
                   dbHead, clock, produced, signals, restarts, arrived,
                   flushed, runStart, nTrue, sent, controlClosed, pairFeeds,
                   pairOut, sawClosed, interrupted>>

NextCorrupt ==
    \/ Next
    \/ DamageHead

SpecCorrupt == Init /\ [][NextCorrupt]_vars

\* the head names a record that is absent or cannot be decoded
CorruptHead ==
    /\ AccID \in DOMAIN dbHead
    /\ \/ \A n \in dbNode : GetHash(n) # dbHead[AccID]
       \/ dbHead[AccID] \in dbGarbage

(***************************************************************************)
(* C17  Corrupt head is fatal at init: Init panics exactly when the head   *)
(* is present and the record it names is absent or cannot be decoded; the  *)
(* panicked Accumulator has no chain map and no channel with anything in   *)
(* it, stays panicked, and nothing is flushed or written to the store from *)
(* then on.  With no head Init succeeds at height 0 with no previous       *)
(* block.                                                                  *)
(***************************************************************************)
C17_CorruptHeadFatal ==
    /\ [][(pc = "new" /\ pc' # "new") =>
             /\ pc' = "panic" <=> CorruptHead
             /\ pc' # "panic" => pc' = "building"
             /\ AccID \notin DOMAIN dbHead =>
                    /\ pc' = "building"
                    /\ height' = 0
                    /\ previous' = << >>]_vars
    /\ [][pc = "panic" =>
             /\ pc' = "panic"
             /\ UNCHANGED <<flushed, dbNode, dbHead, sent>>]_vars
    /\ [](pc = "panic" =>
             /\ chains = << >>
             /\ entryFeed = << >>
             /\ control = << >>
             /\ mdFeed = << >>
             /\ Len(flushed) = runStart)

\* Init has panicked on a head whose record no longer unmarshals
C17_Witness ==
    /\ pc = "panic"
    /\ dbGarbage # {}
    /\ CorruptHead
    /\ flushed # << >>

(***************************************************************************)
(* A store at the last height.  The store already holds a directory block  *)
(* of height MaxHeight, written as Run writes one, and the head names it.  *)
(***************************************************************************)
LastBlock == DirectoryBlock(MaxHeight, << >>, 0, GetMDRoot(EmptyMD))

InitOverflow ==
    /\ InitVolatile
    /\ dbNode = PutNode({}, LastBlock)
    /\ dbHead = PutHead(<< >>, LastBlock)
    /\ pairFeeds = << << >>, << >> >>

SpecOverflow == InitOverflow /\ [][Next]_vars

(***************************************************************************)
(* C18  Height overflow is fatal: when the persisted head has the largest  *)
(* block height, Init or the flush that follows fails, so the Accumulator  *)
(* never holds a next height that wrapped around to 0 and no block is      *)
(* flushed on top of that head.                                            *)
(***************************************************************************)
C18_OverflowFatal ==
    /\ ~(/\ pc \in {"building", "send"}
         /\ previous # << >>
         /\ previous[1].BHeight = MaxHeight
         /\ height = 0)
    /\ \A i \in 1..Len(flushed) :
           flushed[i].previous # << >> =>
               flushed[i].previous[1].BHeight # MaxHeight

(***************************************************************************)
(* Progress.  The process is not stopped.  The select picks among its      *)
(* ready cases at random, so a control case that stays ready is taken in   *)
(* the end; the send on mdFeed completes once the channel has room; the    *)
(* consumer keeps receiving from mdFeed.                                   *)
(***************************************************************************)
NextLive ==
    \/ AccInit
    \/ RecvEntry
    \/ RecvControlStay
    \/ RecvControlFlush
    \/ SendMD
    \/ Produce
    \/ Signal
    \/ Consume

\* The steps of NextLive that take pc from "building" to "send" are the
\* steps of RecvControlFlush, and they are possible exactly when the value
\* at the head of control ends the block.
FlushStep ==
    /\ pc = "building"
    /\ control # << >>
    /\ EndsBlock(Head(control))
    /\ pc' = "send"

Fairness ==
    /\ WF_pc(FlushStep)
    /\ WF_vars(SendMD)
    /\ WF_vars(Consume)

LiveSpec == Init /\ [][NextLive]_vars /\ Fairness

====
